---- MODULE Spec2Model ----
(***************************************************************************)
(* wgetpipe (src/wgetpipe.go): stdin is scanned by scanStdIn into the      *)
(* buffered channel getChan, MaxRequests getter goroutines claim lines     *)
(* from it, issue one GET each and hand the result over the unbuffered     *)
(* channel rChan to collate, which counts it in rStats.  A signal closes   *)
(* abortChan.  main joins the getters (gwg), closes rChan and joins the    *)
(* scanner and the collator (wg).                                          *)
(***************************************************************************)
EXTENDS Integers, Sequences, FiniteSets, TLC

\* ------------------------------------------------------------- bounds
MaxWorkers == 2     \* largest value of the -max flag explored
MaxLines == 2       \* longest stdin explored by Spec
MaxLoad == 4        \* largest product of getters and lines explored
MaxGuess == 1       \* largest value of the -guess flag explored
MaxResults == 3     \* results fed to the collator by SpecCollate

\* ------------------------------------------------------ program constants
QueueFactor == 10

\* getChan = make(chan string, MaxRequests*10)
Capacity(max) == max * QueueFactor

\* ------------------------------------------------------------ the inputs
\* A line of stdin is the empty string or a URL; what the server answers to
\* a URL is part of the environment and is fixed per URL.
URLs == {"ok200", "unreachable"}
Lines == URLs \cup {""}

\* a URL whose server accepts the request and never answers it
Silent == "silent"

NoResponse == [StatusCode |-> 0, ContentLength |-> 0]

\* What Client.Do returns when neither a deadline nor a cancellation cuts
\* the request short: a response and a nil error, or no response and an error.
Server(u) ==
    IF u = "ok200"
    THEN [response |-> [StatusCode |-> 200, ContentLength |-> 5], err |-> "nil"]
    ELSE [response |-> NoResponse, err |-> "dial"]

\* The status codes a response is given in SpecCollate: both ends of every
\* range collate tells apart (net/http accepts any three digits)
StatusCodes == {0, 1, 200, 399, 400, 499, 500, 599, 600, 999}

\* every Code a urlCode of the model can carry
Codes == StatusCodes \cup {Server(u).response.StatusCode : u \in URLs}

\* type urlCode struct and its zero value
zu == [URL |-> "", Code |-> 0, Size |-> 0, Dur |-> 0, Err |-> "nil"]

\* type stat struct, zero-valued
ZeroStat == [count |-> 0, error4s |-> 0, error5s |-> 0, errors |-> 0, mismatches |-> 0]

NoBar == [total |-> 0, current |-> 0, nil |-> TRUE]

\* pb.ProgressBarTemplate(tmpl).New(totalGuess)
NewBar(guess) == [total |-> guess, current |-> 0, nil |-> FALSE]

VARIABLES
    MaxRequests,  \* -max
    ErrOnly,      \* -errorsonly
    useBar,       \* -bar
    totalGuess,   \* -guess
    timeout,      \* -timeout (0: none)
    stdin,        \* the lines of standard input
    getChan,      \* buffered channel of lines, each held as its line number in stdin
    getClosed,    \* close(getChan) has run
    rChan,        \* "open" or "closed"; unbuffered, it holds nothing
    abortChan,    \* "open" or "closed"
    scanPc,       \* scanStdIn: "scan", "send", "bar", "exit", "close", "done"
    count,        \* scanStdIn's count
    gPc,          \* getter g: "range", "check", "ctx", "do", "send", "post", "done"
    gUrl,         \* getter g: line number of the url it holds (0: none)
    gOut,         \* getter g: what Client.Do returned (response, err)
    gRes,         \* getter g: the urlCode it sends
    abort,        \* getter g: its abort flag, written by its watcher and read by
                  \* the getter with no synchronisation between the two (AbortRead)
    ctx,          \* getter g: the context cancel refers to: "nil" (none, or one
                  \* whose request is over), "live", "cancelled"
    wPc,          \* getter g's watcher goroutine: "wait", "cancel", "done"
    colPc,        \* collate: "recv", "check", "count", "done"
    i,            \* collate's loop variable
    rStats,       \* main's rStats, written by collate
    bar,          \* the progress bar (NoBar when -bar is off)
    out,          \* lines written to color.Output by collate
    alt,          \* a second collate fed the same results with ErrOnly flipped
    gwg,          \* sync.WaitGroup counter of the getters
    wg,           \* sync.WaitGroup counter of collate and scanStdIn
    mainPc,       \* main: "gwg", "close", "wg", "stats", "done"
    claimed,      \* history: per line number, how often it was claimed
    issued,       \* history: per line number, how often a GET was issued
    emitted,      \* history: per line number, how many results were handed over
    pending,      \* history: per getter, GETs issued and not yet handed over
    counted       \* history: per Code, how many results collate has counted

flags == <<MaxRequests, ErrOnly, useBar, totalGuess, timeout, stdin>>
chans == <<getChan, getClosed, rChan, abortChan>>
scanVars == <<scanPc, count>>
getVars == <<gPc, gUrl, gOut, gRes, abort, ctx, wPc>>
colVars == <<colPc, i, rStats, out, alt>>
joinVars == <<gwg, wg, mainPc>>
histVars == <<claimed, issued, emitted, pending, counted>>
vars == <<flags, chans, scanVars, getVars, colVars, bar, joinVars, histVars>>

RECURSIVE SeqsUpTo(_, _)
\* every sequence over S of length at most n
SeqsUpTo(S, n) ==
    IF n = 0 THEN {<<>>}
    ELSE LET shorter == SeqsUpTo(S, n - 1)
         IN shorter \cup {Append(s, x) : s \in {t \in shorter : Len(t) = n - 1}, x \in S}

\* Spawned with the loop run once too often
SpawnedOneMore(max) == 1 .. max + 1

\* for range MaxRequests { go getter(...) }
Spawned(max) == 1 .. max

Getters == DOMAIN gPc

\* the process has not left main
Running == mainPc # "done"

\* the state main leaves behind once every goroutine is spawned
Start(max, eo, ub, guess, to, input) ==
    /\ MaxRequests = max
    /\ ErrOnly = eo
    /\ useBar = ub
    /\ totalGuess = guess
    /\ timeout = to
    /\ stdin = input
    /\ getChan = <<>>
    /\ getClosed = FALSE
    /\ rChan = "open"
    /\ abortChan = "open"
    /\ scanPc = "scan"
    /\ count = 0
    /\ gPc = [g \in Spawned(max) |-> "range"]
    /\ gUrl = [g \in Spawned(max) |-> 0]
    /\ gOut = [g \in Spawned(max) |-> Server("")]
    /\ gRes = [g \in Spawned(max) |-> zu]
    /\ abort = [g \in Spawned(max) |-> FALSE]
    /\ ctx = [g \in Spawned(max) |-> "nil"]
    /\ wPc = [g \in Spawned(max) |-> "wait"]
    /\ colPc = "recv"
    /\ i = zu
    /\ rStats = ZeroStat
    /\ bar = IF ub THEN NewBar(guess) ELSE NoBar
    /\ out = 0
    /\ alt = [stats |-> ZeroStat, incr |-> 0, out |-> 0]
    /\ gwg = max
    /\ wg = 2
    /\ mainPc = "gwg"
    /\ claimed = [k \in 1 .. Len(input) |-> 0]
    /\ issued = [k \in 1 .. Len(input) |-> 0]
    /\ emitted = [k \in 1 .. Len(input) |-> 0]
    /\ pending = [g \in Spawned(max) |-> 0]
    /\ counted = [c \in Codes |-> 0]

\* Spec explores -max, -timeout and stdin; the flags that only reach the
\* output and the progress bar keep their defaults
Init ==
    \E max \in 1 .. MaxWorkers, to \in 0 .. 1, input \in SeqsUpTo(Lines, MaxLines) :
        /\ max * Len(input) <= MaxLoad
        /\ Start(max, FALSE, FALSE, 0, to, input)

\* ------------------------------------------------------------- signal
\* signalhandler.Simple(func(os.Signal) { close(abortChan) })
Signal ==
    /\ Running
    /\ abortChan = "open"
    /\ abortChan' = "closed"
    /\ UNCHANGED <<flags, getChan, getClosed, rChan, scanVars, getVars, colVars, bar,
                   joinVars, histVars>>

\* ------------------------------------------------------------ scanStdIn
\* for scanner.Scan() { select { case <-abortChan: return; default: } ...
ScanNext ==
    /\ Running
    /\ scanPc = "scan"
    /\ scanPc' = IF count = Len(stdin) \/ abortChan = "closed" THEN "exit" ELSE "send"
    /\ UNCHANGED <<flags, chans, count, getVars, colVars, bar, joinVars, histVars>>

\* getChan <- scanner.Text(): blocks while the buffer is full
ScanSend ==
    /\ Running
    /\ scanPc = "send"
    /\ Len(getChan) < Capacity(MaxRequests)
    /\ getChan' = Append(getChan, count + 1)
    /\ scanPc' = "bar"
    /\ UNCHANGED <<flags, getClosed, rChan, abortChan, count, getVars, colVars, bar,
                   joinVars, histVars>>

\* if bar.Total() < count { bar.SetTotal(bar.Total() + 1) }
GrowTotal(b, n) == IF ~b.nil /\ b.total < n THEN [b EXCEPT !.total = @ + 1] ELSE b

\* count++ and the progress bar's total
ScanBar ==
    /\ Running
    /\ scanPc = "bar"
    /\ count' = count + 1
    /\ bar' = GrowTotal(bar, count + 1)
    /\ scanPc' = "scan"
    /\ UNCHANGED <<flags, chans, getVars, colVars, joinVars, histVars>>

\* the deferred calls run last in, first out: wg.Done() ...
ScanDone ==
    /\ Running
    /\ scanPc = "exit"
    /\ wg' = wg - 1
    /\ scanPc' = "close"
    /\ UNCHANGED <<flags, chans, count, getVars, colVars, bar, gwg, mainPc, histVars>>

\* ... then close(getChan)
ScanClose ==
    /\ Running
    /\ scanPc = "close"
    /\ getClosed' = TRUE
    /\ scanPc' = "done"
    /\ UNCHANGED <<flags, getChan, rChan, abortChan, count, getVars, colVars, bar,
                   joinVars, histVars>>

\* --------------------------------------------------------------- getter
\* return, with the deferred wg.Done()
GetterReturn(g) ==
    /\ gPc' = [gPc EXCEPT ![g] = "done"]
    /\ gwg' = gwg - 1

\* for url := range getChan: receive the head, or leave at close
GetterRange(g) ==
    /\ Running
    /\ gPc[g] = "range"
    /\ IF getChan # <<>>
       THEN /\ gUrl' = [gUrl EXCEPT ![g] = Head(getChan)]
            /\ getChan' = Tail(getChan)
            /\ claimed' = [claimed EXCEPT ![Head(getChan)] = @ + 1]
            /\ gPc' = [gPc EXCEPT ![g] = "check"]
            /\ UNCHANGED gwg
       ELSE /\ getClosed
            /\ GetterReturn(g)
            /\ UNCHANGED <<gUrl, getChan, claimed>>
    /\ UNCHANGED <<flags, getClosed, rChan, abortChan, scanVars, gOut, gRes, abort, ctx,
                   wPc, colVars, bar, wg, mainPc, issued, emitted, pending, counted>>

\* What a read of abort by getter g may return.  The watcher's abort = true
\* and the getter's reads are ordered by no synchronisation, so a read sees
\* the watcher's write or still the initial false.
AbortRead(g) == {abort[g], FALSE}

\* What the watcher's read of cancel may refer to: the context of the
\* request in flight, or an earlier value of cancel (nil, or the cancel
\* function of a request that is over), for the same reason.
CancelRead(g) == {ctx[g], "nil"}

\* GetterCheck without the test for the empty string
GetterCheckNoEmpty(g) ==
    /\ Running
    /\ gPc[g] = "check"
    /\ \E a \in AbortRead(g) :
        IF a
        THEN /\ GetterReturn(g)
             /\ gUrl' = [gUrl EXCEPT ![g] = 0]
        ELSE /\ gPc' = [gPc EXCEPT ![g] = "ctx"]
             /\ UNCHANGED <<gwg, gUrl>>
    /\ UNCHANGED <<flags, chans, scanVars, gOut, gRes, abort, ctx, wPc, colVars, bar,
                   wg, mainPc, histVars>>

\* if abort { return } else if url == "" { return }
GetterCheck(g) ==
    /\ Running
    /\ gPc[g] = "check"
    /\ \E a \in AbortRead(g) :
        IF a \/ stdin[gUrl[g]] = ""
        THEN /\ GetterReturn(g)
             /\ gUrl' = [gUrl EXCEPT ![g] = 0]
        ELSE /\ gPc' = [gPc EXCEPT ![g] = "ctx"]
             /\ UNCHANGED <<gwg, gUrl>>
    /\ UNCHANGED <<flags, chans, scanVars, gOut, gRes, abort, ctx, wPc, colVars, bar,
                   wg, mainPc, histVars>>

\* ctx, cancel = context.WithTimeout(...) or context.WithCancel(...): cancel
\* now refers to the context of this request, which Client.Do is given
GetterCtx(g) ==
    /\ Running
    /\ gPc[g] = "ctx"
    /\ ctx' = [ctx EXCEPT ![g] = "live"]
    /\ issued' = [issued EXCEPT ![gUrl[g]] = @ + 1]
    /\ pending' = [pending EXCEPT ![g] = @ + 1]
    /\ gPc' = [gPc EXCEPT ![g] = "do"]
    /\ UNCHANGED <<flags, chans, scanVars, gUrl, gOut, gRes, abort, wPc, colVars, bar,
                   joinVars, claimed, emitted, counted>>

\* what Client.Do may return for getter g's request: the server's answer
\* unless the server is silent, the deadline of a -timeout, or the
\* cancellation of the request's context
Outcomes(g) ==
    (IF stdin[gUrl[g]] = Silent THEN {} ELSE {Server(stdin[gUrl[g]])})
        \cup (IF timeout > 0 THEN {[response |-> NoResponse, err |-> "deadline"]} ELSE {})
        \cup (IF ctx[g] = "cancelled"
              THEN {[response |-> NoResponse, err |-> "canceled"]} ELSE {})

\* MakeResult sending urlCode{} for a request that failed
MakeResultBlankOnErr(u, o, d) ==
    IF o.err # "nil"
    THEN zu
    ELSE [URL |-> u, Code |-> o.response.StatusCode, Size |-> o.response.ContentLength,
          Dur |-> d, Err |-> "nil"]

\* MakeResult reporting a transport failure as a 599 response
MakeResultAs599(u, o, d) ==
    IF o.err # "nil"
    THEN [URL |-> u, Code |-> 599, Size |-> 0, Dur |-> d, Err |-> o.err]
    ELSE [URL |-> u, Code |-> o.response.StatusCode, Size |-> o.response.ContentLength,
          Dur |-> d, Err |-> "nil"]

\* rChan <- urlCode{url, 0, 0, d, err} or
\* rChan <- urlCode{url, response.StatusCode, response.ContentLength, d, nil}
MakeResult(u, o, d) ==
    IF o.err # "nil"
    THEN [URL |-> u, Code |-> 0, Size |-> 0, Dur |-> d, Err |-> o.err]
    ELSE [URL |-> u, Code |-> o.response.StatusCode, Size |-> o.response.ContentLength,
          Dur |-> d, Err |-> "nil"]

\* d := time.Since(s): the clock is not modelled; every request is given the
\* duration that leaves the most fields of its urlCode zero
Elapsed == zu.Dur

\* GetterDo logging a failed request and sending nothing for it
GetterDoDropErr(g) ==
    /\ Running
    /\ gPc[g] = "do"
    /\ \E o \in Outcomes(g) :
        /\ gOut' = [gOut EXCEPT ![g] = o]
        /\ gRes' = [gRes EXCEPT ![g] = MakeResult(stdin[gUrl[g]], o, Elapsed)]
        /\ gPc' = [gPc EXCEPT ![g] = IF o.err # "nil" THEN "post" ELSE "send"]
    /\ UNCHANGED <<flags, chans, scanVars, gUrl, abort, ctx, wPc, colVars, bar,
                   joinVars, histVars>>

\* response, err := Client.Do(req); d := time.Since(s)
GetterDo(g) ==
    /\ Running
    /\ gPc[g] = "do"
    /\ \E o \in Outcomes(g) :
        /\ gOut' = [gOut EXCEPT ![g] = o]
        /\ gRes' = [gRes EXCEPT ![g] = MakeResult(stdin[gUrl[g]], o, Elapsed)]
    /\ gPc' = [gPc EXCEPT ![g] = "send"]
    /\ UNCHANGED <<flags, chans, scanVars, gUrl, abort, ctx, wPc, colVars, bar,
                   joinVars, histVars>>

\* rChan <- urlCode{...}: rChan is unbuffered, the send completes when
\* collate receives (for i := range rChan)
GetterSend(g) ==
    /\ Running
    /\ gPc[g] = "send"
    /\ rChan = "open"
    /\ colPc = "recv"
    /\ i' = gRes[g]
    /\ colPc' = "check"
    /\ gPc' = [gPc EXCEPT ![g] = "post"]
    /\ emitted' = [emitted EXCEPT ![gUrl[g]] = @ + 1]
    /\ pending' = [pending EXCEPT ![g] = @ - 1]
    /\ UNCHANGED <<flags, chans, scanVars, gUrl, gOut, gRes, abort, ctx, wPc, rStats, out,
                   alt, bar, joinVars, claimed, issued, counted>>

\* GetterPost leaving the loop after a request that failed
GetterPostQuitOnErr(g) ==
    /\ Running
    /\ gPc[g] = "post"
    /\ ctx' = [ctx EXCEPT ![g] = "nil"]
    /\ gUrl' = [gUrl EXCEPT ![g] = 0]
    /\ gOut' = [gOut EXCEPT ![g] = Server("")]
    /\ gRes' = [gRes EXCEPT ![g] = zu]
    /\ \E a \in AbortRead(g) :
        IF a \/ gRes[g].Err # "nil"
        THEN GetterReturn(g)
        ELSE /\ gPc' = [gPc EXCEPT ![g] = "range"]
             /\ UNCHANGED gwg
    /\ UNCHANGED <<flags, chans, scanVars, abort, wPc, colVars, bar, wg, mainPc, histVars>>

\* cancel(); if abort { return }; then the next iteration
GetterPost(g) ==
    /\ Running
    /\ gPc[g] = "post"
    /\ ctx' = [ctx EXCEPT ![g] = "nil"]
    /\ gUrl' = [gUrl EXCEPT ![g] = 0]
    /\ gOut' = [gOut EXCEPT ![g] = Server("")]
    /\ gRes' = [gRes EXCEPT ![g] = zu]
    /\ \E a \in AbortRead(g) :
        IF a
        THEN GetterReturn(g)
        ELSE /\ gPc' = [gPc EXCEPT ![g] = "range"]
             /\ UNCHANGED gwg
    /\ UNCHANGED <<flags, chans, scanVars, abort, wPc, colVars, bar, wg, mainPc, histVars>>

\* the goroutine of getter g: <-abortChan; abort = true
Watcher(g) ==
    /\ Running
    /\ wPc[g] = "wait"
    /\ abortChan = "closed"
    /\ abort' = [abort EXCEPT ![g] = TRUE]
    /\ wPc' = [wPc EXCEPT ![g] = "cancel"]
    /\ UNCHANGED <<flags, chans, scanVars, gPc, gUrl, gOut, gRes, ctx, colVars, bar,
                   joinVars, histVars>>

\* if cancel != nil { cancel() }: cancels the context of the request in
\* flight, if there is one and cancel is seen to refer to it; a nil cancel,
\* or the cancel function of a request that is over, changes nothing
WatcherCancel(g) ==
    /\ Running
    /\ wPc[g] = "cancel"
    /\ \E c \in CancelRead(g) :
        ctx' = IF c = "live" THEN [ctx EXCEPT ![g] = "cancelled"] ELSE ctx
    /\ wPc' = [wPc EXCEPT ![g] = "done"]
    /\ UNCHANGED <<flags, chans, scanVars, gPc, gUrl, gOut, gRes, abort, colVars, bar,
                   joinVars, histVars>>

\* -------------------------------------------------------------- collate
\* CollateOne with the 4xx range starting one code late
CollateOneLate4xx(st, r, eo, hasBar) ==
    LET s1 == [st EXCEPT !.count = @ + 1]
        inc == IF hasBar THEN 1 ELSE 0
    IN  IF r.Code = 0
        THEN [stats |-> [s1 EXCEPT !.errors = @ + 1], incr |-> inc, out |-> 1]
        ELSE IF r.Code <= 400
        THEN [stats |-> s1, incr |-> inc, out |-> IF eo THEN 0 ELSE 1]
        ELSE IF r.Code < 500
        THEN [stats |-> [s1 EXCEPT !.error4s = @ + 1], incr |-> inc, out |-> 1]
        ELSE IF r.Code < 600
        THEN [stats |-> [s1 EXCEPT !.error5s = @ + 1], incr |-> inc, out |-> 1]
        ELSE [stats |-> [s1 EXCEPT !.mismatches = @ + 1], incr |-> inc, out |-> 1]

\* CollateOne skipping a suppressed line before it is counted
CollateOneSkipUncounted(st, r, eo, hasBar) ==
    LET s1 == [st EXCEPT !.count = @ + 1]
        inc == IF hasBar THEN 1 ELSE 0
    IN  IF eo /\ r.Code # 0 /\ r.Code < 400
        THEN [stats |-> st, incr |-> 0, out |-> 0]
        ELSE IF r.Code = 0
        THEN [stats |-> [s1 EXCEPT !.errors = @ + 1], incr |-> inc, out |-> 1]
        ELSE IF r.Code < 400
        THEN [stats |-> s1, incr |-> inc, out |-> 1]
        ELSE IF r.Code < 500
        THEN [stats |-> [s1 EXCEPT !.error4s = @ + 1], incr |-> inc, out |-> 1]
        ELSE IF r.Code < 600
        THEN [stats |-> [s1 EXCEPT !.error5s = @ + 1], incr |-> inc, out |-> 1]
        ELSE [stats |-> [s1 EXCEPT !.mismatches = @ + 1], incr |-> inc, out |-> 1]

\* One pass of the loop body from stats.count++ on: the new stats, the
\* number of bar.Increment() calls and the number of lines written.
CollateOne(st, r, eo, hasBar) ==
    LET s1 == [st EXCEPT !.count = @ + 1]
        inc == IF hasBar THEN 1 ELSE 0
    IN  IF r.Code = 0
        THEN [stats |-> [s1 EXCEPT !.errors = @ + 1], incr |-> inc, out |-> 1]
        ELSE IF r.Code < 400
        THEN [stats |-> s1, incr |-> inc, out |-> IF eo THEN 0 ELSE 1]
        ELSE IF r.Code < 500
        THEN [stats |-> [s1 EXCEPT !.error4s = @ + 1], incr |-> inc, out |-> 1]
        ELSE IF r.Code < 600
        THEN [stats |-> [s1 EXCEPT !.error5s = @ + 1], incr |-> inc, out |-> 1]
        ELSE [stats |-> [s1 EXCEPT !.mismatches = @ + 1], incr |-> inc, out |-> 1]

\* return, with the deferred wg.Done()
CollateReturn ==
    /\ colPc' = "done"
    /\ i' = zu
    /\ wg' = wg - 1

\* for i := range rChan ends when rChan is closed
CollateClosed ==
    /\ Running
    /\ colPc = "recv"
    /\ rChan = "closed"
    /\ CollateReturn
    /\ UNCHANGED <<flags, chans, scanVars, getVars, rStats, out, alt, bar, gwg, mainPc,
                   histVars>>

\* CollateCheck without the look at abortChan
CollateCheckNoAbort ==
    /\ Running
    /\ colPc = "check"
    /\ IF i = zu
       THEN CollateReturn
       ELSE /\ colPc' = "count"
            /\ UNCHANGED <<i, wg>>
    /\ UNCHANGED <<flags, chans, scanVars, getVars, rStats, out, alt, bar, gwg, mainPc,
                   histVars>>

\* if i == zu { return }; select { case <-abortChan: return; default: }
CollateCheck ==
    /\ Running
    /\ colPc = "check"
    /\ IF i = zu \/ abortChan = "closed"
       THEN CollateReturn
       ELSE /\ colPc' = "count"
            /\ UNCHANGED <<i, wg>>
    /\ UNCHANGED <<flags, chans, scanVars, getVars, rStats, out, alt, bar, gwg, mainPc,
                   histVars>>

\* stats.count++, bar.Increment(), the classification and the output line
CollateCount ==
    /\ Running
    /\ colPc = "count"
    /\ LET n == CollateOne(rStats, i, ErrOnly, ~bar.nil)
           m == CollateOne(alt.stats, i, ~ErrOnly, ~bar.nil)
       IN  /\ rStats' = n.stats
           /\ bar' = [bar EXCEPT !.current = @ + n.incr]
           /\ out' = out + n.out
           /\ alt' = [stats |-> m.stats, incr |-> alt.incr + m.incr, out |-> alt.out + m.out]
    /\ counted' = [counted EXCEPT ![i.Code] = @ + 1]
    /\ colPc' = "recv"
    /\ i' = zu
    /\ UNCHANGED <<flags, chans, scanVars, getVars, joinVars, claimed, issued, emitted,
                   pending>>

\* ----------------------------------------------------------------- main
\* MainJoin returning while one getter is still running
MainJoinEarly ==
    /\ mainPc = "gwg"
    /\ gwg <= 1
    /\ mainPc' = "close"
    /\ UNCHANGED <<flags, chans, scanVars, getVars, colVars, bar, gwg, wg, histVars>>

\* gwg.Wait()
MainJoin ==
    /\ mainPc = "gwg"
    /\ gwg = 0
    /\ mainPc' = "close"
    /\ UNCHANGED <<flags, chans, scanVars, getVars, colVars, bar, gwg, wg, histVars>>

\* close(rChan)
MainClose ==
    /\ mainPc = "close"
    /\ rChan' = "closed"
    /\ mainPc' = "wg"
    /\ UNCHANGED <<flags, getChan, getClosed, abortChan, scanVars, getVars, colVars, bar,
                   gwg, wg, histVars>>

\* MainWait returning while one of collate and scanStdIn is still running
MainWaitForOne ==
    /\ mainPc = "wg"
    /\ wg <= 1
    /\ mainPc' = "stats"
    /\ UNCHANGED <<flags, chans, scanVars, getVars, colVars, bar, gwg, wg, histVars>>

\* wg.Wait()
MainWait ==
    /\ mainPc = "wg"
    /\ wg = 0
    /\ mainPc' = "stats"
    /\ UNCHANGED <<flags, chans, scanVars, getVars, colVars, bar, gwg, wg, histVars>>

\* if Summary { ... rStats.errors, rStats.error4s, rStats.error5s,
\* rStats.mismatches, rStats.count ... }: with -stats main reads rStats,
\* writes nothing to it, and the process ends
MainSummary ==
    /\ mainPc = "stats"
    /\ mainPc' = "done"
    /\ UNCHANGED <<flags, chans, scanVars, getVars, colVars, bar, gwg, wg, histVars>>

\* ------------------------------------------------------- specifications
Step ==
    \/ ScanNext
    \/ ScanSend
    \/ ScanBar
    \/ ScanDone
    \/ ScanClose
    \/ \E g \in Getters : GetterRange(g)
    \/ \E g \in Getters : GetterCheck(g)
    \/ \E g \in Getters : GetterCtx(g)
    \/ \E g \in Getters : GetterDo(g)
    \/ \E g \in Getters : GetterSend(g)
    \/ \E g \in Getters : GetterPost(g)
    \/ \E g \in Getters : Watcher(g)
    \/ \E g \in Getters : WatcherCancel(g)
    \/ CollateClosed
    \/ CollateCheck
    \/ CollateCount
    \/ MainJoin
    \/ MainClose
    \/ MainWait
    \/ MainSummary

Next == Signal \/ Step

Spec == Init /\ [][Next]_vars

\* Spec with the progress bar on: -bar, with every -guess from -1 on
InitBar ==
    \E max \in 1 .. MaxWorkers, guess \in -1 .. MaxGuess, input \in SeqsUpTo(Lines, MaxLines) :
        /\ max * Len(input) <= MaxLoad
        /\ Start(max, FALSE, TRUE, guess, 0, input)

SpecBar == InitBar /\ [][Next]_vars

\* One getter and more lines than getChan buffers: a blank line followed by
\* Capacity(1) + 1 URLs, or as many URLs and no blank line
LongInputs ==
    {[k \in 1 .. Capacity(1) + 2 |-> IF k = 1 THEN first ELSE "ok200"] : first \in Lines}

InitLong == \E input \in LongInputs : Start(1, FALSE, FALSE, 0, 0, input)

LongSpec == InitLong /\ [][Next]_vars

\* No -timeout, and servers that answer 200 or never answer at all
InitSilent ==
    \E max \in 1 .. MaxWorkers, input \in SeqsUpTo({"ok200", Silent}, MaxLines) :
        /\ max * Len(input) <= MaxLoad
        /\ Start(max, FALSE, FALSE, 0, 0, input)

SilentSpec == InitSilent /\ [][Next]_vars

\* ------------------------------------------------- collate on its own
\* Every urlCode a getter can build, whatever the server answers
Results ==
    {MakeResult("ok200", [response |-> [StatusCode |-> c, ContentLength |-> 5], err |-> "nil"],
                Elapsed) : c \in StatusCodes}
        \cup {MakeResult("unreachable", [response |-> NoResponse, err |-> e], Elapsed) :
                e \in {"dial", "deadline", "canceled"}}

\* rChan <- urlCode{...}, seen from collate: some getter hands r over
Deliver(r) ==
    /\ colPc = "recv"
    /\ rChan = "open"
    /\ rStats.count < MaxResults
    /\ i' = r
    /\ colPc' = "check"
    /\ UNCHANGED <<flags, chans, scanVars, getVars, rStats, out, alt, bar, joinVars,
                   histVars>>

\* close(rChan), seen from collate
CloseResults ==
    /\ rChan = "open"
    /\ rChan' = "closed"
    /\ UNCHANGED <<flags, getChan, getClosed, abortChan, scanVars, getVars, colVars, bar,
                   joinVars, histVars>>

InitCollate ==
    \E eo \in BOOLEAN, ub \in BOOLEAN : Start(1, eo, ub, 0, 0, <<>>)

NextCollate ==
    \/ Signal
    \/ \E r \in Results : Deliver(r)
    \/ CloseResults
    \/ CollateClosed
    \/ CollateCheck
    \/ CollateCount

\* collate fed any sequence of at most MaxResults results, the rest of the
\* program held still
SpecCollate == InitCollate /\ [][NextCollate]_vars

\* ---------------------------------------------------------------- claims
RECURSIVE SumOver(_, _)
\* the sum of f[x] over the x of S
SumOver(f, S) ==
    IF S = {} THEN 0
    ELSE LET x == CHOOSE y \in S : TRUE IN f[x] + SumOver(f, S \ {x})

Max(a, b) == IF a >= b THEN a ELSE b

LineNumbers == 1 .. Len(stdin)

NoEmptyLine == \A k \in LineNumbers : stdin[k] # ""

\* Every step but Signal is a step of the program.  A run takes finitely
\* many of them (each moves one goroutine forward, and stdin is finite), so
\* a run reaches Done exactly when it never comes to a state other than Done
\* in which no goroutine can take a step.
Stuck == mainPc # "done" /\ ~ENABLED Step

\* C1: no line is ever claimed twice nor answered twice, and a run over
\* non-empty lines that is Done without a cancellation has had every line
\* claimed once and answered once, and has counted as many results as lines.
C1_EachUrlOnce ==
    /\ \A k \in LineNumbers : claimed[k] <= 1 /\ emitted[k] <= 1
    /\ (mainPc = "done" /\ abortChan = "open" /\ NoEmptyLine)
        => /\ \A k \in LineNumbers : claimed[k] = 1 /\ emitted[k] = 1
           /\ rStats.count = Len(stdin)

C1_Witness ==
    /\ mainPc = "done"
    /\ abortChan = "open"
    /\ NoEmptyLine
    /\ MaxRequests >= 2
    /\ Len(stdin) >= 2
    /\ rStats.count = Len(stdin)
    /\ rStats.errors >= 1

\* C2: once abortChan is closed the run goes on to Done: it never comes to a
\* state where main has not finished and no goroutine can take a step.
C2_CancelledRunReachesDone == abortChan = "closed" => ~Stuck

\* C3: once abortChan is closed no step issues a GET.
C3_NoRequestAfterCancel == [][abortChan = "closed" => issued' = issued]_vars

\* C4: without a cancellation every input, blank lines included, is run to
\* Done: the run never comes to a state where main has not finished and no
\* goroutine can take a step.
C4_EveryInputReachesDone == abortChan = "open" => ~Stuck

CodesIn(lo, hi) == {c \in Codes : lo <= c /\ c <= hi}

C5_Buckets ==
    /\ rStats.errors = counted[0]
    /\ rStats.error4s = SumOver(counted, CodesIn(400, 499))
    /\ rStats.error5s = SumOver(counted, CodesIn(500, 599))
    /\ rStats.mismatches = SumOver(counted, {c \in Codes : c >= 600})
    /\ rStats.count = rStats.errors + rStats.error5s + rStats.error4s + rStats.mismatches
                        + SumOver(counted, {c \in Codes : c # 0 /\ c < 400})

C5_Grow ==
    /\ rStats'.count >= rStats.count
    /\ rStats'.errors >= rStats.errors
    /\ rStats'.error4s >= rStats.error4s
    /\ rStats'.error5s >= rStats.error5s
    /\ rStats'.mismatches >= rStats.mismatches

\* C5: at every moment each bucket of rStats holds the number of counted
\* results of its range of Codes, count is the sum of the buckets and of the
\* counted results with a Code below 400 other than 0, and no counter ever
\* decreases.
C5_StatsAddUp == []C5_Buckets /\ [][C5_Grow]_vars

C5_Witness ==
    /\ colPc = "done"
    /\ rStats.count = 3
    /\ rStats.error4s = 1
    /\ rStats.mismatches = 1
    /\ counted[399] = 1

\* C6: never more than MaxRequests GETs are in flight, no getter has more
\* than one request outstanding, and a getter about to claim a line has none.
C6_BoundedInFlight ==
    /\ Cardinality({g \in Getters : gPc[g] = "do"}) <= MaxRequests
    /\ \A g \in Getters :
        /\ pending[g] <= 1
        /\ gPc[g] \in {"range", "check"} => pending[g] = 0

C6_Witness ==
    /\ MaxRequests = 2
    /\ \A g \in Getters : gPc[g] = "do" /\ pending[g] = 1

\* C7 as stated: a getter returns only when abortChan is closed or when
\* getChan is closed and empty.
C7_ReturnsOnlyOnCancelOrExhaustion ==
    [][\A g \in Getters :
        (gPc[g] # "done" /\ gPc'[g] = "done")
            => abortChan = "closed" \/ (getClosed /\ getChan = <<>>)]_vars

C7_Returns(g) ==
    (gPc[g] # "done" /\ gPc'[g] = "done")
        => \/ abortChan = "closed"
           \/ getClosed /\ getChan = <<>>
           \/ gPc[g] = "check" /\ stdin[gUrl[g]] = ""

C7_GoesOn(g) ==
    /\ (gPc[g] = "do" /\ gPc'[g] # "do") => gPc'[g] = "send"
    /\ (gPc[g] = "send" /\ gPc'[g] # "send")
        => gPc'[g] = "post" /\ emitted'[gUrl[g]] = emitted[gUrl[g]] + 1
    /\ (gPc[g] = "post" /\ gPc'[g] # "post" /\ abortChan = "open") => gPc'[g] = "range"

\* C7, amended: whatever Client.Do returned, the getter sends its result,
\* and with abortChan open it then goes back to claim the next line; a getter
\* returns only when abortChan is closed, when getChan is closed and empty,
\* or when it has claimed an empty line.
C7_ErrorsDoNotStopGetter == [][\A g \in Getters : C7_Returns(g) /\ C7_GoesOn(g)]_vars

C7_Witness ==
    /\ MaxRequests = 1
    /\ abortChan = "open"
    /\ Len(stdin) = 2
    /\ stdin[1] = "unreachable"
    /\ emitted[1] = 1
    /\ gPc[1] = "do"
    /\ gUrl[1] = 2

C8_Sent ==
    \A g \in Getters :
        gPc[g] = "send" =>
            /\ gOut[g].err # "nil"
                => gRes[g].Code = 0 /\ gRes[g].Size = 0 /\ gRes[g].Err # "nil"
            /\ gOut[g].err = "nil" => gRes[g].Err = "nil"

C8_Counted ==
    (colPc = "count" /\ colPc' # "count" /\ i.Err # "nil")
        => /\ rStats'.errors = rStats.errors + 1
           /\ rStats'.error4s = rStats.error4s
           /\ rStats'.error5s = rStats.error5s
           /\ rStats'.mismatches = rStats.mismatches

\* C8: a result sent for a failed Client.Do has Code 0, Size 0 and an Err, a
\* result sent for a response has no Err, and collate counts a result with
\* an Err in errors and in no other bucket.
C8_TransportFailureIsCodeZero == []C8_Sent /\ [][C8_Counted]_vars

C8_Witness ==
    /\ rStats.errors = 1
    /\ rStats.count = 2
    /\ counted[200] = 1
    /\ \E k \in LineNumbers : stdin[k] = "unreachable"

\* C9: collate and its twin, fed the same results with ErrOnly the other
\* way round, hold the same stats and have incremented the bar as often.
C9_ErrOnlyOnlyOutput == alt.stats = rStats /\ alt.incr = bar.current

C9_Witness ==
    /\ colPc = "done"
    /\ rStats.count >= 2
    /\ ~bar.nil
    /\ alt.out # out

\* C10: the total of the bar never decreases, and whenever scanStdIn is
\* between two lines, having pushed k >= 1 of them, it is max(totalGuess, k).
C10_TotalIsMaxOfGuessAndCount ==
    /\ [][bar'.total >= bar.total]_vars
    /\ []((~bar.nil /\ scanPc \in {"scan", "exit", "close", "done"} /\ count >= 1)
            => bar.total = Max(totalGuess, count))

\* rChan is closed only with every getter returned and its wg.Done() run
C11_ClosedAfterGetters ==
    /\ gwg = Cardinality({g \in Getters : gPc[g] # "done"})
    /\ rChan = "closed" => gwg = 0 /\ \A g \in Getters : gPc[g] = "done"
    /\ mainPc = "close" => rChan = "open"

C11_Once ==
    /\ rChan = "closed" => rChan' = "closed"
    /\ \A g \in Getters :
        gPc[g] = "done" => gPc'[g] = "done" /\ pending'[g] = pending[g]
    /\ emitted' # emitted => rChan = "open" /\ rChan' = "open"

\* C11: rChan is closed once, by main, and only when every getter has
\* returned and run its wg.Done(); a getter that has returned stays returned
\* and hands over nothing more, and every result is handed over with rChan
\* open: no getter is ever at a send with rChan closed.
C11_NoSendOnClosedResults == []C11_ClosedAfterGetters /\ [][C11_Once]_vars

C11_Witness ==
    /\ rChan = "closed"
    /\ abortChan = "closed"
    /\ MaxRequests = 2
    /\ \E k \in LineNumbers : emitted[k] = 1

\* C12: once abortChan is closed scanStdIn does not stay for ever in
\* getChan <- scanner.Text(): the run never comes to a state where the scanner
\* is at that send and no goroutine can take a step any more.
C12_ScannerLeavesPushAfterCancel ==
    abortChan = "closed" => ~(scanPc = "send" /\ ~ENABLED Step)

\* C13: once abortChan is closed no GET stays in flight for ever, even with
\* no -timeout and a server that never answers: the run never comes to a
\* state where a getter is inside Client.Do and no goroutine can take a step
\* any more (its watcher included, which would cancel the request's context).
C13_NoRequestInFlightForEver ==
    abortChan = "closed" => \A g \in Getters : ~(gPc[g] = "do" /\ ~ENABLED Step)

C14_ReadAfterCollate == mainPc = "stats" => colPc = "done" /\ wg = 0

C14_SingleWriter ==
    /\ rStats' # rStats => colPc = "count" /\ colPc' = "recv"
    /\ mainPc \in {"stats", "done"} => rStats' = rStats

\* C14: rStats changes only in a step of collate that counts a result; main
\* is at its read of rStats only when collate has returned and run its
\* wg.Done(), and from then on rStats never changes.
C14_StatsReadAfterCollate == []C14_ReadAfterCollate /\ [][C14_SingleWriter]_vars

C14_Witness ==
    /\ mainPc = "stats"
    /\ abortChan = "closed"
    /\ rStats.count = 1
    /\ SumOver(emitted, LineNumbers) = 2

\* C15 as stated: once abortChan is closed no step changes rStats or the
\* number of increments of the bar.
C15_NothingCountedAfterCancel ==
    [][abortChan = "closed" => rStats' = rStats /\ bar'.current = bar.current]_vars

C15_Checked ==
    /\ (colPc = "recv" /\ colPc' # "recv") => colPc' \in {"check", "done"}
    /\ (colPc = "check" /\ colPc' # "check" /\ abortChan = "closed") => colPc' = "done"
    /\ (abortChan = "closed" /\ colPc # "count")
        => colPc' # "count" /\ rStats' = rStats /\ bar'.current = bar.current
    /\ colPc = "done" => colPc' = "done"

\* C15, amended: every result received goes through the look at abortChan
\* before it is counted; a result looked at with abortChan closed makes
\* collate return, uncounted; once abortChan is closed only the one result
\* that had passed the look before the close can still change rStats and the
\* bar, and nothing changes them afterwards; rStats.count never exceeds the
\* number of results handed over by the getters.
C15_CancelCheckedBeforeCount ==
    /\ [](rStats.count <= SumOver(emitted, LineNumbers))
    /\ [][C15_Checked]_vars

C15_Witness ==
    /\ abortChan = "closed"
    /\ colPc = "done"
    /\ ~bar.nil
    /\ bar.current = 1
    /\ rStats.count = 1
    /\ SumOver(emitted, LineNumbers) = 2

C16_NeverDispatched ==
    /\ \A k \in LineNumbers : stdin[k] = "" => issued[k] = 0 /\ emitted[k] = 0
    /\ \A g \in Getters :
        (gPc[g] \in {"ctx", "do", "send", "post"}) => stdin[gUrl[g]] # ""

C16_ExitsAtOnce ==
    /\ \A g \in Getters :
        (gPc[g] = "check" /\ stdin[gUrl[g]] = "" /\ gPc'[g] # "check")
            => gPc'[g] = "done" /\ gwg' = gwg - 1
    /\ gwg' = gwg - Cardinality({g \in Getters : gPc[g] # "done" /\ gPc'[g] = "done"})
    /\ \A g \in Getters : gPc[g] = "done" => gPc'[g] = "done"

\* C16: a getter that has claimed the empty string returns in its next
\* step, running wg.Done() in that step and never again; no GET is ever
\* issued and no result ever handed over for an empty line.
C16_EmptyLineEndsGetter == []C16_NeverDispatched /\ [][C16_ExitsAtOnce]_vars

C16_Witness ==
    /\ abortChan = "open"
    /\ MaxRequests = 2
    /\ Len(stdin) = 2
    /\ stdin[1] = ""
    /\ claimed[1] = 1
    /\ emitted[2] = 1
    /\ gwg = 1

\* C17: with the bar on and a -guess that is not negative, the number of
\* bar.Increment() calls made by collate never exceeds the total of the bar.
C17_IncrementsWithinTotal ==
    (~bar.nil /\ totalGuess >= 0) => bar.current <= bar.total

\* The watcher of getter g is about to write abort (abort = true) and the
\* getter is about to read it (if abort), with nothing ordering the two
RaceOnAbort(g) ==
    /\ wPc[g] = "wait"
    /\ abortChan = "closed"
    /\ gPc[g] \in {"check", "post"}

\* Getter g is about to write cancel (ctx, cancel = context.With...) and its
\* watcher is about to read it (if cancel != nil), with nothing ordering the two
RaceOnCancel(g) ==
    /\ gPc[g] = "ctx"
    /\ wPc[g] = "cancel"

\* C18: apart from rStats and abortChan no variable is ever about to be
\* accessed by two goroutines at once with one of them writing: no getter
\* and its watcher are ever at conflicting accesses of abort or of cancel.
C18_NoUnsynchronisedSharing ==
    \A g \in Getters : ~RaceOnAbort(g) /\ ~RaceOnCancel(g)

C19_Sent ==
    \A g \in Getters :
        gPc[g] = "send"
            => gRes[g] # zu /\ gRes[g].URL = stdin[gUrl[g]] /\ gRes[g].URL # ""

C19_Received == colPc \in {"check", "count"} => i # zu /\ i.URL # ""

C19_Ends ==
    (colPc # "done" /\ colPc' = "done")
        => \/ colPc = "recv" /\ rChan = "closed"
           \/ colPc = "check" /\ abortChan = "closed"

\* C19: the urlCode a getter sends is never the zero value: it carries the
\* line the getter claimed, which is not empty; so is every result collate
\* holds, and collate returns only at the close of rChan or at a look at a
\* closed abortChan, never at i == zu.
C19_NoZeroResult == [](C19_Sent /\ C19_Received) /\ [][C19_Ends]_vars

C19_Witness ==
    /\ colPc = "count"
    /\ abortChan = "open"
    /\ i.URL = "unreachable"
    /\ i.Code = zu.Code /\ i.Size = zu.Size /\ i.Dur = zu.Dur
    /\ rStats.count = 1

====
